---- MODULE Spec2Model ----
(***************************************************************************)
(* Model of WebScraping/whoscored_scraper.py: the URL helper               *)
(* extract_info_from_url, the pagination walk getUrlData, the season and   *)
(* stage navigation of getMatchUrls, and the per-match pipeline            *)
(* scrape_whoscored_data driven by the module-level batch loop.            *)
(*                                                                         *)
(* Encodings.  A URL is the sequence of its "/"-separated segments, each   *)
(* segment the sequence of its "-"-separated tokens.  A Python value that  *)
(* may be a dict, a str or None is a record [kind, name].                  *)
(***************************************************************************)
EXTENDS Integers, Sequences, FiniteSets, TLC

VARIABLES
    \* ---- extract_info_from_url / scrape_whoscored_data locals
    whoscored_url,   \* the URL being processed
    info,            \* (region, competition, season) of line 517
    upc,             \* position of the stand-alone extract_info_from_url call
    \* ---- the web session during getUrlData
    listing,         \* the listing on display: its month pages, oldest first,
                     \* and the state of the oldest page's previous control
    walk,            \* getUrlData's locals and position, with the page shown
    \* ---- getMatchUrls
    nav,             \* getMatchUrls' locals and position
    \* ---- the module-level script, lines 698-724
    run,             \* how far the script got: "navigating", "scraping", "aborted"
    batch,           \* the loop of lines 713-717 over formatted_urls
    \* ---- scrape_whoscored_data
    scr,             \* its position, match_id, the page loaded and the outcome
    match_events,    \* matchDict['events'] (line 531)
    df,              \* the events frame after lines 533-596
    team_info,       \* lines 600-615
    match_info,      \* lines 623-636
    lineup_df,       \* lines 660-672
    sink             \* the latest upsert call: table and records

urlVars   == <<whoscored_url, info, upc>>
walkVars  == <<listing, walk>>
navVars   == <<nav>>
runVars   == <<run, batch, scr, match_events, df, team_info, match_info, lineup_df, sink>>
matchVars == <<match_events, df, team_info, match_info, lineup_df>>

vars == <<whoscored_url, info, upc, listing, walk, nav, run, batch, scr,
          match_events, df, team_info, match_info, lineup_df, sink>>

(***************************************************************************)
(* Bounds                                                                  *)
(***************************************************************************)
MaxHead == 3        \* tokens in front of the season of a generated segment

(***************************************************************************)
(* URLs                                                                    *)
(***************************************************************************)
YearTokens == {"2023", "2024"}
WordTokens == {"England", "Premier", "League"}
TeamTail   == {<<>>, <<"Arsenal">>, <<"Arsenal", "Chelsea">>}
SeasonPart == {<<>>, <<"2023", "2024">>}

\* \d{4}: a token of exactly four digits
IsYear(tok) == tok \in YearTokens

SeqsUpTo(S, n) == UNION {[1..k -> S] : k \in 1..n}

UrlOf(id, last) ==
    << <<"https:">>, <<"">>, <<"www.whoscored.com">>, <<"Matches">>, <<id>>, <<"Live">>, last >>

ExampleSegment ==
    <<"England", "Premier", "League", "2023", "2024", "Arsenal", "Chelsea">>

ExampleUrl == UrlOf("1821689", ExampleSegment)

LastSegments ==
    {h \o s \o t : h \in SeqsUpTo(WordTokens \cup YearTokens, MaxHead),
                   s \in SeasonPart, t \in TeamTail}

NoInfo == [found |-> FALSE, region |-> <<>>, competition |-> <<>>, season |-> <<>>]

\* Places (i, j) where r'/([^/]+)-([^/]+)-(\d{4}-\d{4})-' matches inside one
\* segment: group 1 is tokens 1..i, group 2 tokens i+1..j-1, the season is
\* tokens j, j+1 and a further "-" follows it.
SegMatches(seg) ==
    {p \in (1..Len(seg)) \X (1..Len(seg)) :
        /\ p[2] >= p[1] + 2
        /\ p[2] + 1 < Len(seg)
        /\ IsYear(seg[p[2]])
        /\ IsYear(seg[p[2] + 1])}

\* The match the regex engine returns for a segment: both groups are greedy,
\* so group 1 is as long as possible and then group 2 is.
GreedyMatch(seg) ==
    LET ms == SegMatches(seg)
        i  == CHOOSE a \in {p[1] : p \in ms} : \A p \in ms : p[1] <= a
        j  == CHOOSE b \in {p[2] : p \in {q \in ms : q[1] = i}} :
                  \A p \in {q \in ms : q[1] = i} : p[2] <= b
    IN  <<i, j>>

\* extract_info_from_url: re.search takes the leftmost "/" from which the
\* pattern matches, i.e. the first segment after a "/" that has a match.
extract_info_from_url(url) ==
    LET hits == {k \in 2..Len(url) : SegMatches(url[k]) # {}}
    IN  IF hits = {} THEN NoInfo
        ELSE LET k   == CHOOSE a \in hits : \A b \in hits : a <= b
                 seg == url[k]
                 m   == GreedyMatch(seg)
             IN  [found       |-> TRUE,
                  region      |-> SubSeq(seg, 1, m[1]),
                  competition |-> SubSeq(seg, m[1] + 1, m[2] - 1),
                  season      |-> SubSeq(seg, m[2], m[2] + 1)]

(***************************************************************************)
(* The state of the batch loop before it starts                            *)
(***************************************************************************)
NoBatch == [pc |-> "idle", n_urls |-> 0, attempted |-> 0, error |-> "none"]

NoScrape ==
    [pc |-> "idle", page |-> "none", match_id |-> 0, outcome |-> "none",
     error |-> "none", written |-> <<>>]

NoUpsert == [table |-> "none", records |-> <<>>]

BatchIdle ==
    /\ batch = NoBatch
    /\ scr = NoScrape
    /\ match_events = <<>>
    /\ df = <<>>
    /\ team_info = <<>>
    /\ match_info = <<>>
    /\ lineup_df = <<>>
    /\ sink = NoUpsert

(***************************************************************************)
(* The listing pages and getUrlData                                        *)
(*                                                                         *)
(* A row is the match_dict built from it: 0 is the empty dict {} of a row  *)
(* without a result link, n > 0 is {'url': href n}.  pages[1] is the       *)
(* oldest month; the session starts on the newest.                         *)
(***************************************************************************)
MaxMonths == 3      \* month pages of a listing

MaxLinks  == 4      \* distinct urls of a listing

MaxIters == MaxMonths + 2   \* cap on the passes of the while loop

\* Rows of one month page, by kind: "a", "b" are links only this month has,
\* "s" is a link every month shows, "n" is a row without a result link.
PageShapes ==
    {<<>>, <<"a">>, <<"n">>, <<"a", "b">>, <<"a", "n">>, <<"s">>, <<"a", "s">>}

RowOf(m, kind) ==
    CASE kind = "a" -> 10 * m + 1
      [] kind = "b" -> 10 * m + 2
      [] kind = "s" -> 1
      [] OTHER      -> 0

PagesOf(shapes) == [m \in 1..Len(shapes) |-> [i \in 1..Len(shapes[m]) |-> RowOf(m, shapes[m][i])]]

\* A listing on display.  controller says whether the page has the element
\* //*[@id="date-controller"]/a[1]; without it there is no class and no title
\* to read, and find_element raises NoSuchElementException.
Listings(shapes, maxMonths) ==
    {[pages |-> PagesOf(sh), disabled |-> d, noData |-> t, controller |-> TRUE] :
        sh \in SeqsUpTo(shapes, maxMonths), d \in BOOLEAN, t \in BOOLEAN}
    \cup
    {[pages |-> PagesOf(sh), disabled |-> FALSE, noData |-> FALSE,
      controller |-> FALSE] : sh \in SeqsUpTo(shapes, maxMonths)}

SeqRange(q) == {q[i] : i \in 1..Len(q)}

\* the urls a listing shows on its pages
LinkedRows(l) == {r \in UNION {SeqRange(l.pages[m]) : m \in 1..Len(l.pages)} : r # 0}

\* 'is-disabled' in the class list of //*[@id="date-controller"]/a[1]
PrevDisabled(l, p) == p = 1 /\ l.disabled

\* the title read from a control that never carries the boundary title
PrevNoDataNever(l, p) == FALSE

\* its title == 'No data for previous week'
PrevNoData(l, p) == p = 1 /\ l.noData

\* .click() on the previous control: one month back; on the oldest page the
\* control does nothing
ClickPrev(p) == IF p > 1 THEN p - 1 ELSE p

\* list(filter(None, matches_ls)): the empty dicts go
FilterNone(ls) == SelectSeq(ls, LAMBDA r : r # 0)

WalkStart(l) ==
    [pc |-> "top", page |-> Len(l.pages), table_rows |-> <<>>, matches_ls |-> <<>>,
     iters |-> 0, clicks |-> 0, read |-> {}]

NoWalk ==
    [pc |-> "idle", page |-> 0, table_rows |-> <<>>, matches_ls |-> <<>>,
     iters |-> 0, clicks |-> 0, read |-> {}]

NoListing == [pages |-> <<>>, disabled |-> FALSE, noData |-> FALSE, controller |-> FALSE]

\* lines 360-368: read the rows (find_elements returns a list and never
\* raises); on an empty page look the control up, which raises when the page
\* has none, and either leave the loop (control disabled) or click it
StepFind(l, w) ==
    LET rows == l.pages[w.page]
        seen == [w EXCEPT !.table_rows = rows, !.clicks = 0, !.read = @ \cup {w.page}]
    IN  IF rows = <<>>
        THEN CASE ~l.controller -> [seen EXCEPT !.pc = "raised"]
               [] PrevDisabled(l, w.page) -> [seen EXCEPT !.pc = "filter"]
               [] OTHER -> [seen EXCEPT !.pc = "rows", !.page = ClickPrev(w.page),
                                        !.clicks = 1]
        ELSE [seen EXCEPT !.pc = "rows"]

\* lines 370-376: one match_dict per row read
StepRows(l, w) ==
    [w EXCEPT !.matches_ls = @ \o w.table_rows, !.pc = "click"]

\* lines 379-380: look the previous-month control up (raising when the page
\* has none) and click it
StepClick(l, w) ==
    IF ~l.controller
    THEN [w EXCEPT !.pc = "raised"]
    ELSE [w EXCEPT !.page = ClickPrev(w.page), !.clicks = @ + 1, !.pc = "check"]

\* lines 383-393 leaving at the boundary without reading the rows on display
StepCheckNoRead(l, w) ==
    IF PrevNoData(l, w.page)
    THEN [w EXCEPT !.pc = "filter"]
    ELSE [w EXCEPT !.pc = "top", !.iters = @ + 1]

\* lines 383-393: on the boundary title read the rows now shown and leave
StepCheck(l, w) ==
    IF PrevNoData(l, w.page)
    THEN [w EXCEPT !.table_rows = l.pages[w.page],
                   !.matches_ls = @ \o l.pages[w.page],
                   !.read = @ \cup {w.page}, !.clicks = 0, !.pc = "filter"]
    ELSE [w EXCEPT !.pc = "top", !.iters = @ + 1]

\* lines 394-397
StepFilter(l, w) ==
    [w EXCEPT !.matches_ls = FilterNone(@), !.pc = "returned"]

WalkFind ==
    /\ walk.pc = "top"
    /\ walk.iters < MaxIters
    /\ walk' = StepFind(listing, walk)
    /\ UNCHANGED <<listing, urlVars, navVars, runVars>>

WalkRows ==
    /\ walk.pc = "rows"
    /\ walk' = StepRows(listing, walk)
    /\ UNCHANGED <<listing, urlVars, navVars, runVars>>

WalkClick ==
    /\ walk.pc = "click"
    /\ walk' = StepClick(listing, walk)
    /\ UNCHANGED <<listing, urlVars, navVars, runVars>>

WalkCheck ==
    /\ walk.pc = "check"
    /\ walk' = StepCheck(listing, walk)
    /\ UNCHANGED <<listing, urlVars, navVars, runVars>>

WalkFilter ==
    /\ walk.pc = "filter"
    /\ walk' = StepFilter(listing, walk)
    /\ UNCHANGED <<listing, urlVars, navVars, runVars>>

WalkIdle == listing = NoListing /\ walk = NoWalk

(***************************************************************************)
(* getMatchUrls                                                            *)
(***************************************************************************)
\* The orders in which the elements of a set can be listed
RECURSIVE Perms(_)
Perms(S) ==
    IF S = {} THEN {<<>>}
    ELSE UNION {{<<x>> \o p : p \in Perms(S \ {x})} : x \in S}

\* lines 486-488 without the set: every row kept, empty dicts removed
RemoveDupKeepAll(all_urls) == {FilterNone(all_urls)}

\* lines 486-488: the rows as a set of item tuples, back to a list, empty
\* dicts removed.  The order of the list is the iteration order of the set,
\* which follows the hashes of the strings and differs from run to run: the
\* lists remove_dup can be are all the orders of the set.
RemoveDup(all_urls) == {FilterNone(p) : p \in Perms(SeqRange(all_urls))}

\* The whole of getUrlData as one call on listing l shown at page p: the
\* steps above, run to the return or to the exception that leaves it.
WalkStep(l, w) ==
    CASE w.pc = "top" /\ w.iters < MaxIters -> StepFind(l, w)
      [] w.pc = "rows"   -> StepRows(l, w)
      [] w.pc = "click"  -> StepClick(l, w)
      [] w.pc = "check"  -> StepCheck(l, w)
      [] w.pc = "filter" -> StepFilter(l, w)
      [] OTHER           -> w

RECURSIVE RunWalk(_, _, _)
RunWalk(l, w, fuel) ==
    IF w.pc \in {"returned", "raised"} \/ fuel = 0 THEN w
    ELSE RunWalk(l, WalkStep(l, w), fuel - 1)

getUrlData(l, p) == RunWalk(l, [WalkStart(l) EXCEPT !.page = p], 5 * (MaxIters + 1))

MaxSeasons == 2     \* options of the season selector
MaxStages  == 2     \* options of the stage selector
NavMonths  == 1     \* month pages of a stage's listing
NavLinks   == 2     \* distinct urls the stages of a season show

SeasonLabels == {"2023/2024", "2022/2023"}
Competitions == {"Bundesliga", "Champions League", "Europa League", "Major League Soccer"}
StageTexts ==
    {"Group Stages", "Final Stage", "Qualification", "Grp. East", "Regular Season",
     "Bundesliga"}

\* The stage options the page of a competition shows (the two European cups
\* share their labels here; a league may show a group label too)
StageTextsOf(competition) ==
    CASE competition \in {"Champions League", "Europa League"} ->
             {"Group Stages", "Final Stage", "Qualification"}
      [] competition = "Major League Soccer" -> {"Grp. East", "Regular Season"}
      [] OTHER -> {"Bundesliga", "Grp. East"}

\* 'Group Stages' in text, 'Final Stage' in text, 'Grp. ' in text
HasGroupStages(text) == text = "Group Stages"
HasFinalStage(text)  == text = "Final Stage"
HasGrp(text)         == text = "Grp. East"

NoNav ==
    [pc |-> "idle", competition |-> "", season |-> "", seasons |-> <<>>,
     legacy_api |-> TRUE, sel |-> 0, n_stages |-> 0, stage_i |-> 0, text |-> "",
     shown |-> 0, calls |-> 0,
     walked |-> <<>>, in_handler |-> FALSE, all_urls |-> <<>>, result |-> <<>>,
     printed |-> <<>>, error |-> "none"]

NavIdle == nav = NoNav

\* the loop of lines 427-430 keeping the last option that matches
LastMatch(seasons, season) ==
    LET ms == {i \in 1..Len(seasons) : seasons[i] = season}
    IN  IF ms = {} THEN 0 ELSE CHOOSE i \in ms : \A k \in ms : i >= k

\* lines 427-430: the options in order, the first whose text equals season
FirstMatch(seasons, season) ==
    LET ms == {i \in 1..Len(seasons) : seasons[i] = season}
    IN  IF ms = {} THEN 0 ELSE CHOOSE i \in ms : \A k \in ms : i <= k

\* lines 413-432 and 493-497: select the season, or print the labels and
\* raise (raising a str is itself a TypeError, which nothing catches)
NavSelectSeason ==
    /\ nav.pc = "start"
    /\ LET i == FirstMatch(nav.seasons, nav.season)
       IN  IF i # 0
           THEN nav' = [nav EXCEPT !.sel = i, !.pc = "selected"]
           ELSE nav' = [nav EXCEPT !.printed = nav.seasons,
                                   !.error = "SeasonNotFound", !.pc = "failed"]
    /\ UNCHANGED <<listing, walk, urlVars, runVars>>

\* lines 433-438: read the stage selector; without one the lookup raises
\* NoSuchElementException (n = -1)
NavReadStages ==
    /\ nav.pc = "selected"
    /\ \E n \in -1..MaxStages :
         nav' = IF n = -1
                THEN [nav EXCEPT !.pc = "except"]
                ELSE [nav EXCEPT !.n_stages = n, !.stage_i = 1, !.all_urls = <<>>,
                                 !.pc = "stage"]
    /\ UNCHANGED <<listing, walk, urlVars, runVars>>

\* Which stages lines 441-475 walk.  "error" is the AttributeError of line 442
\* on a driver without find_element_by_xpath, reached when the first test of
\* the "or" is false.
StageVerdict(competition, text, legacy_api) ==
    IF competition \in {"Champions League", "Europa League"}
    THEN IF HasGroupStages(text) THEN "walk"
         ELSE IF ~legacy_api THEN "error"
         ELSE IF HasFinalStage(text) THEN "walk" ELSE "skip"
    ELSE IF competition = "Major League Soccer"
    THEN IF ~HasGrp(text) THEN "walk" ELSE "skip"
    ELSE "walk"

\* Rows of a month page of a stage's listing: none, one link of its own, or
\* a link other stages show too next to a row without a link.
StageShapes == {<<>>, <<"a">>, <<"s", "n">>}

\* The rows of stage k: its own links are numbered from 100 * k
OfStage(k, rows) ==
    [i \in 1..Len(rows) |-> IF rows[i] > 1 THEN 100 * k + rows[i] ELSE rows[i]]

\* The listings a stage (or the season page) can show, before the numbering,
\* each with a page p the display may be on and the call of getUrlData made
\* there
StageWalks ==
    UNION {{[l |-> l, p |-> p, w |-> getUrlData(l, p)] : p \in 1..Len(l.pages)} :
              l \in Listings(StageShapes, NavMonths)}

\* The listing of an entry of StageWalks as stage k shows it
ListingOf(k, e) ==
    [e.l EXCEPT !.pages = [m \in 1..Len(e.l.pages) |-> OfStage(k, e.l.pages[m])]]

\* The walk of an entry of StageWalks on the listing as stage k shows it
WalkOf(k, e) ==
    [e.w EXCEPT !.table_rows = OfStage(k, @), !.matches_ls = OfStage(k, @)]

\* lines 440-475, one pass of the stage loop: the option's text decides; a
\* walked stage is clicked, walked to the end and its rows are collected.
\* nav.shown is the stage whose listing the browser displays (0: the page
\* of the season), nav.calls the calls of getUrlData begun.  The rows on
\* display are not kept: a later read of the display finds a listing of the
\* stage shown.  An element lookup that finds nothing raises
\* NoSuchElementException, either at the option (first disjunct) or inside
\* the walk of a stage just clicked (a listing without the date controller),
\* whose rows are then not collected; both enter the except clause.
NavStage ==
    /\ nav.pc = "stage"
    /\ nav.stage_i <= nav.n_stages
    /\ \/ nav' = [nav EXCEPT !.pc = "except"]
       \/ \E text \in StageTextsOf(nav.competition) :
            LET v == StageVerdict(nav.competition, text, nav.legacy_api)
                read == [nav EXCEPT !.text = text]
            IN  \/ /\ v = "skip"
                   /\ nav' = [read EXCEPT !.stage_i = @ + 1]
                \/ /\ v = "error"
                   /\ nav' = [read EXCEPT !.error = "AttributeError", !.pc = "failed"]
                \/ /\ v = "walk"
                   /\ \E e \in StageWalks :
                        LET w == WalkOf(nav.stage_i, e)
                            clicked == [read EXCEPT !.shown = nav.stage_i,
                                                    !.calls = @ + 1]
                            next ==
                                CASE w.pc = "returned" ->
                                         [clicked EXCEPT !.all_urls = @ \o w.matches_ls,
                                                         !.walked = Append(@, nav.stage_i),
                                                         !.stage_i = @ + 1]
                                  [] w.pc = "raised" -> [clicked EXCEPT !.pc = "except"]
                                  [] OTHER -> [clicked EXCEPT !.pc = "hung"]
                        IN  /\ e.p = Len(e.l.pages)
                            /\ Cardinality(SeqRange(next.all_urls)) <= NavLinks
                            /\ nav' = next
    /\ UNCHANGED <<listing, walk, urlVars, runVars>>

\* the stage loop is over
NavStagesDone ==
    /\ nav.pc = "stage"
    /\ nav.stage_i > nav.n_stages
    /\ nav' = [nav EXCEPT !.pc = "dedup"]
    /\ UNCHANGED <<listing, walk, urlVars, runVars>>

\* The pages the display may be on when the except clause reads it: the
\* newest of the season's own page, any of a stage's listing
StartPages(l, shown) == IF shown = 0 THEN {Len(l.pages)} ELSE 1..Len(l.pages)

\* lines 477-484 keeping what the stages collected
NavExceptNoReset ==
    /\ nav.pc = "except"
    /\ \E e \in StageWalks :
         LET w == WalkOf(nav.shown, e)
             h == [nav EXCEPT !.in_handler = TRUE, !.calls = @ + 1]
         IN  /\ e.p \in StartPages(e.l, nav.shown)
             /\ listing' = ListingOf(nav.shown, e)
             /\ walk' = w
             /\ nav' = CASE w.pc = "returned" ->
                              [h EXCEPT !.all_urls = @ \o w.matches_ls, !.pc = "dedup"]
                         [] w.pc = "raised" ->
                              [h EXCEPT !.error = "NoSuchElementException",
                                        !.pc = "failed"]
                         [] OTHER -> [h EXCEPT !.pc = "hung"]
    /\ UNCHANGED <<urlVars, runVars>>

\* lines 477-484: the except clause empties all_urls and walks the listing
\* on display once.  Nothing catches a NoSuchElementException raised by this
\* walk: it leaves getMatchUrls from line 482, before line 490 closes the
\* driver.
NavExcept ==
    /\ nav.pc = "except"
    /\ \E e \in StageWalks :
         LET w == WalkOf(nav.shown, e)
             h == [nav EXCEPT !.in_handler = TRUE, !.calls = @ + 1]
         IN  /\ e.p \in StartPages(e.l, nav.shown)
             /\ listing' = ListingOf(nav.shown, e)
             /\ walk' = w
             /\ nav' = CASE w.pc = "returned" ->
                              [h EXCEPT !.all_urls = w.matches_ls, !.pc = "dedup"]
                         [] w.pc = "raised" ->
                              [h EXCEPT !.all_urls = <<>>,
                                        !.error = "NoSuchElementException",
                                        !.pc = "failed"]
                         [] OTHER -> [h EXCEPT !.all_urls = <<>>, !.pc = "hung"]
    /\ UNCHANGED <<urlVars, runVars>>

\* lines 482-484 with the walk taken step by step: all_urls += match_urls
NavCollect ==
    /\ nav.pc = "walking"
    /\ walk.pc = "returned"
    /\ nav' = [nav EXCEPT !.all_urls = @ \o walk.matches_ls, !.pc = "dedup"]
    /\ UNCHANGED <<listing, walk, urlVars, runVars>>

\* line 482 with the walk taken step by step, the walk raising: the
\* NoSuchElementException leaves getMatchUrls
NavRaise ==
    /\ nav.pc = "walking"
    /\ walk.pc = "raised"
    /\ nav' = [nav EXCEPT !.error = "NoSuchElementException", !.pc = "failed"]
    /\ UNCHANGED <<listing, walk, urlVars, runVars>>

\* lines 486-492
NavDedup ==
    /\ nav.pc = "dedup"
    /\ \E remove_dup \in RemoveDup(nav.all_urls) :
         nav' = [nav EXCEPT !.result = remove_dup, !.pc = "returned"]
    /\ UNCHANGED <<listing, walk, urlVars, runVars>>

\* lines 707-713: getMatchUrls returned; formatted_urls has one URL per row
\* of its list and the batch loop starts
StartBatch ==
    /\ run = "navigating"
    /\ nav.pc = "returned"
    /\ run' = "scraping"
    /\ batch' = [NoBatch EXCEPT !.pc = "loop", !.n_urls = Len(nav.result)]
    /\ UNCHANGED <<listing, walk, nav, urlVars, scr, matchVars, sink>>

\* line 707: the exception leaves getMatchUrls and ends the script
NavAbort ==
    /\ run = "navigating"
    /\ nav.pc = "failed"
    /\ run' = "aborted"
    /\ UNCHANGED <<listing, walk, nav, urlVars, batch, scr, matchVars, sink>>

InitNav ==
    /\ \E c \in Competitions, ss \in SeqsUpTo(SeasonLabels, MaxSeasons), la \in BOOLEAN :
         nav = [NoNav EXCEPT !.pc = "start", !.competition = c, !.season = "2023/2024",
                             !.seasons = ss, !.legacy_api = la]
    /\ run = "navigating"
    /\ BatchIdle
    /\ WalkIdle
    /\ whoscored_url = <<>>
    /\ info = NoInfo
    /\ upc = "idle"

NextNav ==
    \/ NavSelectSeason
    \/ NavReadStages
    \/ NavStage
    \/ NavStagesDone
    \/ NavExcept
    \/ NavDedup
    \/ StartBatch
    \/ NavAbort

SpecNav == InitNav /\ [][NextNav]_vars

NoLabelMatches == \A i \in 1..Len(nav.seasons) : nav.seasons[i] # nav.season

\* C10: once the season options were gone through: if no label equals the
\* requested season, the labels were printed, the season-not-found failure
\* ended getMatchUrls, and the script never reaches the batch loop or the
\* sink; if some label does, the option selected is the first that equals it
\* and the season-not-found failure is not raised.
C10_SeasonNotFoundIsFatal ==
    nav.pc # "start" =>
        IF NoLabelMatches
        THEN /\ nav.pc = "failed"
             /\ nav.error = "SeasonNotFound"
             /\ nav.printed = nav.seasons
             /\ nav.sel = 0
             /\ run \in {"navigating", "aborted"}
             /\ batch = NoBatch
             /\ sink = NoUpsert
        ELSE /\ nav.sel \in 1..Len(nav.seasons)
             /\ nav.seasons[nav.sel] = nav.season
             /\ \A k \in 1..(nav.sel - 1) : nav.seasons[k] # nav.season
             /\ nav.error # "SeasonNotFound"
             /\ nav.printed = <<>>

C10_Witness ==
    /\ NoLabelMatches
    /\ Len(nav.seasons) = 2
    /\ run = "aborted"

\* the rows of the pages a walk read
RowsRead(l, w) == UNION {SeqRange(l.pages[m]) : m \in w.read}

\* C11: the list getMatchUrls returns has no two equal rows and no row
\* without a url, and holds each url collected by the walks exactly once;
\* where the listing walked is known (the walk of the handler), these are
\* the linked rows of the pages read, a row without a link being dropped.
C11_ResultIsDeduplicated ==
    nav.pc = "returned" =>
        /\ \A i, k \in 1..Len(nav.result) : nav.result[i] = nav.result[k] => i = k
        /\ \A i \in 1..Len(nav.result) : nav.result[i] # 0
        /\ SeqRange(nav.result) = SeqRange(nav.all_urls) \ {0}
        /\ nav.in_handler => SeqRange(nav.result) = RowsRead(listing, walk) \ {0}

\* two stages walked, a url met more than once
C11_Witness ==
    /\ nav.pc = "returned"
    /\ Len(nav.walked) >= 2
    /\ Len(nav.all_urls) > Len(nav.result)
    /\ Len(nav.result) >= 2

\* the stages C15 says are walked
InStageSet(competition, text) ==
    IF competition \in {"Champions League", "Europa League"}
    THEN HasGroupStages(text) \/ HasFinalStage(text)
    ELSE IF competition = "Major League Soccer" THEN ~HasGrp(text)
    ELSE TRUE

\* C15: once the label of a stage option was read and its pass of the loop
\* is over (no lookup failed, the walk returned), the loop goes on or ends in
\* the ordinary way, the stage was walked exactly when its label puts it in
\* the set of its competition, and the stages walked so far are in option
\* order, each once.
C15_StagesWalkedByRule ==
    (nav.text # "" /\ ~nav.in_handler /\ nav.pc \notin {"except", "hung"}) =>
        /\ nav.pc \in {"stage", "dedup", "returned"}
        /\ InStageSet(nav.competition, nav.text) <=>
               (nav.walked # <<>> /\ nav.walked[Len(nav.walked)] = nav.stage_i - 1)
        /\ \A i, k \in 1..Len(nav.walked) : i < k => nav.walked[i] < nav.walked[k]

\* C16 as stated: the rows the except clause ends with hold no url that the
\* stages walked before the exception had collected.
C16_EarlierUrlsNotInResult ==
    [][nav.pc = "except" =>
          SeqRange(nav.all_urls) \cap SeqRange(nav'.all_urls) = {}]_vars

\* C16: a NoSuchElementException raised inside the try block after the
\* season was selected makes exactly one more call of getUrlData, on the
\* listing on display; when that walk returns, the list is its rows and
\* nothing else, so that a url the stages had collected before is in the
\* result only if that walk read it again; when that walk itself raises,
\* the exception leaves getMatchUrls and nothing is returned; no call
\* follows it.  With no stage selector and no other failure this is the only
\* call.
C16_HandlerWalksOnce ==
    /\ [][nav.pc = "except" =>
             /\ nav'.in_handler
             /\ nav'.calls = nav.calls + 1
             /\ nav'.pc \in {"dedup", "hung", "failed"}
             /\ nav'.pc = "dedup" => nav'.all_urls = walk'.matches_ls
             /\ nav'.pc = "failed" =>
                    /\ walk'.pc = "raised"
                    /\ nav'.error = "NoSuchElementException"
                    /\ nav'.all_urls = <<>>]_vars
    /\ [][nav.in_handler => nav'.calls = nav.calls /\ nav'.all_urls = nav.all_urls]_vars
    /\ [](nav.in_handler /\ nav.pc = "failed" => nav.result = <<>>)
    /\ [](nav.in_handler /\ nav.pc = "returned" =>
             /\ SeqRange(nav.result) = RowsRead(listing, walk) \ {0}
             /\ \A r \in SeqRange(nav.result) : r \in SeqRange(walk.matches_ls)
             /\ nav.walked = <<>> /\ nav.shown = 0 => nav.calls = 1)

\* a stage was walked, a later lookup failed, the walk of the except clause
\* returned rows
C16_Witness ==
    /\ nav.in_handler
    /\ nav.pc = "returned"
    /\ nav.walked # <<>>
    /\ nav.result # <<>>
    /\ nav.calls = Len(nav.walked) + 1

(***************************************************************************)
(* One pagination walk, step by step: getMatchUrls from line 478, where    *)
(* no stage selector exists and the listing on display is walked once.     *)
(***************************************************************************)
InitWalk ==
    /\ listing \in {l \in Listings(PageShapes, MaxMonths) :
                      Cardinality(LinkedRows(l)) <= MaxLinks}
    /\ walk = WalkStart(listing)
    /\ nav = [NoNav EXCEPT !.pc = "walking", !.in_handler = TRUE, !.sel = 1,
                         !.calls = 1, !.competition = "Bundesliga",
                         !.season = "2023/2024", !.seasons = <<"2023/2024">>]
    /\ run = "navigating"
    /\ BatchIdle
    /\ whoscored_url = <<>>
    /\ info = NoInfo
    /\ upc = "idle"

NextWalk ==
    \/ WalkFind
    \/ WalkRows
    \/ WalkClick
    \/ WalkCheck
    \/ WalkFilter
    \/ NavCollect
    \/ NavRaise
    \/ NavDedup

\* The steps of getUrlData
WalkLoop ==
    \/ WalkFind
    \/ WalkRows
    \/ WalkClick
    \/ WalkCheck
    \/ WalkFilter

\* The interpreter keeps executing the loop of getUrlData: a step of it that
\* can be taken is taken.
SpecWalk == InitWalk /\ [][NextWalk]_vars /\ WF_vars(WalkLoop)

ThreeMonths ==
    /\ Len(listing.pages) = 3
    /\ \A m \in 1..3 : listing.pages[m] # <<>>
    /\ listing.noData

\* C5: for a listing of exactly 3 months, each with rows, whose oldest page
\* carries the 'No data for previous week' title, the list returned after the
\* deduplication holds every linked row of the 3 months, nothing else, and no
\* row twice.
C5_ThreeMonthUnion ==
    (ThreeMonths /\ nav.pc = "returned") =>
        /\ SeqRange(nav.result) = LinkedRows(listing)
        /\ Len(nav.result) = Cardinality(LinkedRows(listing))

C5_Witness ==
    /\ ThreeMonths
    /\ nav.pc = "returned"
    /\ Len(nav.all_urls) > Len(nav.result)
    /\ Cardinality(LinkedRows(listing)) >= 4

\* The pages C6 speaks of: the oldest page shows the boundary title, or it is
\* empty and its previous control is disabled.
BoundedListing ==
    \/ listing.noData
    \/ (listing.pages[1] = <<>> /\ listing.disabled)

\* C6: on every such listing the walk leaves its loop and returns.
C6_WalkReturns == BoundedListing ~> (walk.pc = "returned")

C6_Witness ==
    /\ BoundedListing
    /\ nav.pc = "returned"
    /\ Len(listing.pages) = 3
    /\ listing.pages[2] = <<>>
    /\ listing.pages[3] # <<>>

\* C12: the rows of every page reached are read before the previous-month
\* control is clicked again, so that every month page the walk has navigated
\* past was read.
C12_EveryPageReadBeforeNextClick ==
    \A m \in 1..Len(listing.pages) : m > walk.page => m \in walk.read

(***************************************************************************)
(* Stand-alone call of extract_info_from_url                               *)
(***************************************************************************)
InitUrl ==
    /\ whoscored_url \in {UrlOf("1821689", s) : s \in LastSegments \cup {ExampleSegment}}
    /\ info = NoInfo
    /\ upc = "call"
    /\ WalkIdle
    /\ NavIdle
    /\ run = "idle"
    /\ BatchIdle

ExtractInfo ==
    /\ upc = "call"
    /\ info' = extract_info_from_url(whoscored_url)
    /\ upc' = "returned"
    /\ UNCHANGED <<whoscored_url, walkVars, navVars, runVars>>

NextUrl == ExtractInfo

SpecUrl == InitUrl /\ [][NextUrl]_vars

\* C2: the example URL yields region "England", competition "Premier-League",
\* season "2023-2024"; and whenever the last segment is a run of word tokens,
\* then its only YYYY-YYYY season, then further tokens, region is the first
\* token and competition is every token between it and the season.
C2_RegionIsFirstToken ==
    upc = "returned" =>
        LET seg == whoscored_url[Len(whoscored_url)]
        IN  /\ whoscored_url = ExampleUrl =>
                /\ info.region = <<"England">>
                /\ info.competition = <<"Premier", "League">>
                /\ info.season = <<"2023", "2024">>
            /\ \A j \in 3..(Len(seg) - 2) :
                 (/\ \A k \in 1..(j - 1) : seg[k] \in WordTokens
                  /\ IsYear(seg[j]) /\ IsYear(seg[j + 1])
                  /\ \A k \in (j + 2)..Len(seg) : ~IsYear(seg[k])) =>
                    /\ info.found
                    /\ info.region = <<seg[1]>>
                    /\ info.competition = SubSeq(seg, 2, j - 1)
                    /\ info.season = SubSeq(seg, j, j + 1)
(***************************************************************************)
(* The match payload                                                       *)
(*                                                                         *)
(* A value that may be a {displayName: ...} descriptor, a plain string or  *)
(* absent is [kind, name] with kind "dict", "str" or "none".  A number     *)
(* that may be absent is NoneNum when it is.                               *)
(***************************************************************************)
MaxUrls   == 2      \* URLs in formatted_urls
MaxEvents == 2      \* events of a payload
MaxRoster == 1      \* players of one team's roster

NoneNum == -1
MissingKey == -2

D(name) == [kind |-> "dict", name |-> name]
S(name) == [kind |-> "str", name |-> name]
Absent  == [kind |-> "none", name |-> ""]

\* One payload event without its id: playerId 0 is an event with no playerId.
\* isGoal is "absent" (the event has no such key), "true" or "false";
\* cardType is "absent" or the name of the card.
BaseEvent ==
    [playerId |-> 7, type |-> D("Pass"), period |-> D("FirstHalf"),
     outcomeType |-> D("Successful"), x |-> 50, isGoal |-> "absent",
     cardType |-> "absent"]

EventShapes ==
    {BaseEvent,
     [BaseEvent EXCEPT !.playerId = 0],
     [BaseEvent EXCEPT !.playerId = 0, !.type = S("Pass")],
     [BaseEvent EXCEPT !.type = D("OffsideGiven")],
     [BaseEvent EXCEPT !.type = S("Pass")],
     [BaseEvent EXCEPT !.period = Absent],
     [BaseEvent EXCEPT !.outcomeType = S("Successful")],
     [BaseEvent EXCEPT !.x = NoneNum],
     [BaseEvent EXCEPT !.isGoal = "true"],
     [BaseEvent EXCEPT !.cardType = "Yellow"]}

EventLists ==
    {<<>>} \cup
    {[i \in 1..Len(sh) |->
        [id |-> i, playerId |-> sh[i].playerId, type |-> sh[i].type,
         period |-> sh[i].period, outcomeType |-> sh[i].outcomeType, x |-> sh[i].x,
         isGoal |-> sh[i].isGoal, cardType |-> sh[i].cardType]] :
        sh \in SeqsUpTo(EventShapes, MaxEvents)}

\* One roster entry without its id: age may be null or the key may be missing.
BasePlayer ==
    [age |-> 25, position |-> S("FW"), subbedInPeriod |-> Absent, subbedOutPeriod |-> Absent]

PlayerShapes ==
    {BasePlayer,
     [BasePlayer EXCEPT !.age = NoneNum],
     [BasePlayer EXCEPT !.age = MissingKey],
     [BasePlayer EXCEPT !.position = Absent],
     [BasePlayer EXCEPT !.subbedInPeriod = D("SecondHalf")],
     [BasePlayer EXCEPT !.subbedInPeriod = S("SecondHalf")],
     [BasePlayer EXCEPT !.subbedOutPeriod = D("SecondHalf")],
     [BasePlayer EXCEPT !.subbedOutPeriod = S("SecondHalf")]}

Rosters(team) ==
    {<<>>} \cup
    {[i \in 1..Len(sh) |->
        [playerId |-> 10 * team + i, age |-> sh[i].age, position |-> sh[i].position,
         subbedInPeriod |-> sh[i].subbedInPeriod,
         subbedOutPeriod |-> sh[i].subbedOutPeriod]] :
        sh \in SeqsUpTo(PlayerShapes, MaxRoster)}

HomeTeamId == 1
AwayTeamId == 2

\* matchDict['score'].split(' : ')
Scores == {<<"3", "1">>, <<"abandoned">>}

IntOf(tok) ==
    CASE tok = "3" -> 3
      [] tok = "1" -> 1
      [] tok = "1821689" -> 1821689
      [] tok = "1821690" -> 1821690
      [] OTHER -> -1

\* int(s) succeeds
IsInt(tok) == IntOf(tok) # -1

\* The URLs the batch meets: the example, one whose last segment has no
\* season, one whose third segment from the end is not an integer.
UrlPool ==
    {ExampleUrl,
     UrlOf("1821690", <<"Arsenal", "Chelsea">>),
     UrlOf("Show", ExampleSegment)}

\* What driver.page_source holds: no script block with the marker, a block
\* whose JSON does not decode, or a payload.
PageKinds == {"none", "garbled", "payload"}

(***************************************************************************)
(* Normalisation of the events, lines 531-596                              *)
(***************************************************************************)
\* line 535: df.dropna(subset='playerId')
DropNoPlayer(events) == SelectSeq(events, LAMBDA e : e.playerId # 0)

\* lambda x: x['displayName'] of lines 564-566: "ok" with the name for a
\* dict, TypeError for a str and for None
Subscript(v) ==
    IF v.kind = "dict" THEN [status |-> "ok", value |-> S(v.name)]
    ELSE [status |-> "TypeError", value |-> Absent]

\* extract_period, lines 242-255
extract_period(v) == IF v.kind = "dict" THEN S(v.name) ELSE v

\* line 575 left out
KeepOffside(rows) == rows

\* line 575: df[~(df['type'] == "OffsideGiven")]
DropOffside(rows) == SelectSeq(rows, LAMBDA r : r.type # S("OffsideGiven"))

\* A column a frame lacks because no event carries the key
NoColumn(events, f) == \A i \in 1..Len(events) : events[i][f] = Absent

\* The outcome of df[col].apply(lambda x: x['displayName']) on the rows kept
ApplyStatus(events, rows, f) ==
    IF NoColumn(events, f) THEN "KeyError"
    ELSE IF \E i \in 1..Len(rows) : Subscript(rows[i][f]).status # "ok" THEN "TypeError"
    ELSE "ok"

\* The keys of the payload's events: the frame of line 533 has one column
\* per key that some event carries
PayloadKeys(events) ==
    {"id", "playerId", "type", "period", "outcomeType", "x"}
    \cup {k \in {"isGoal", "cardType"} : \E i \in 1..Len(events) : events[i][k] # "absent"}

\* lines 543-562: the rename table, on the keys above
Rename(k) ==
    CASE k = "id"          -> "event_id"
      [] k = "outcomeType" -> "outcome_type"
      [] k = "playerId"    -> "player_id"
      [] k = "cardType"    -> "card_type"
      [] OTHER             -> k

\* df.columns after the rename
Columns(events) == {Rename(k) : k \in PayloadKeys(events)}

\* .astype(bool) of line 585 on a flag or a card value
AsBool(v) == IF v \in {"absent", "false"} THEN "false" ELSE "true"

\* lines 568-569 and 585: is_goal is set to False unless the frame has a
\* column of that name
IsGoalOf(e, cols) == IF "is_goal" \in cols THEN AsBool(e.isGoal) ELSE "false"

\* lines 571-573 and 585: card_type is set to False unless the frame has a
\* column is_card
CardTypeOf(e, cols) == IF "is_card" \in cols THEN AsBool(e.cardType) ELSE "false"

EventRow(e, match_id, cols) ==
    [event_id |-> e.id, match_id |-> match_id, player_id |-> e.playerId, x |-> e.x,
     is_goal |-> IsGoalOf(e, cols), card_type |-> CardTypeOf(e, cols),
     type |-> Subscript(e.type).value,
     outcome_type |-> Subscript(e.outcomeType).value,
     period |-> Subscript(e.period).value]

\* lines 531-596: the status is "ok" with the frame, or the exception raised
NormalizeEvents(events, match_id) ==
    LET rows == DropNoPlayer(events)
        fail(err) == [status |-> err, df |-> <<>>]
    IN  IF events = <<>> \/ \A i \in 1..Len(events) : events[i].playerId = 0
        THEN fail("KeyError")
        ELSE IF ApplyStatus(events, rows, "period") # "ok"
        THEN fail(ApplyStatus(events, rows, "period"))
        ELSE IF ApplyStatus(events, rows, "type") # "ok"
        THEN fail(ApplyStatus(events, rows, "type"))
        ELSE IF ApplyStatus(events, rows, "outcomeType") # "ok"
        THEN fail(ApplyStatus(events, rows, "outcomeType"))
        ELSE [status |-> "ok",
              df |-> DropOffside([i \in 1..Len(rows) |->
                              EventRow(rows[i], match_id, Columns(events))])]

(***************************************************************************)
(* The pydantic models, lines 26-162, on the fields the payload varies     *)
(***************************************************************************)
IsStr(v) == v.kind = "str"
IsOptStr(v) == v.kind \in {"str", "none"}

\* Events(**x)
ValidEvent(r) ==
    /\ r.player_id > 0
    /\ r.x # NoneNum
    /\ IsStr(r.type) /\ IsStr(r.outcome_type) /\ IsStr(r.period)

\* Player(**x)
ValidPlayer(r) == r.age >= 0 /\ r.player_id > 0 /\ r.team_id > 0

\* Matches(**x)
ValidMatch(r) ==
    /\ r.match_id > 0
    /\ r.home_score >= 0 /\ r.away_score >= 0
    /\ r.region # <<>> /\ r.competition # <<>> /\ r.season # <<>>

\* Lineups(**x)
ValidLineup(r) ==
    /\ r.player_id > 0
    /\ IsStr(r.player_position)
    /\ IsOptStr(r.subbed_in_period) /\ IsOptStr(r.subbed_out_period)

ValidFor(table, r) ==
    CASE table = "events"  -> ValidEvent(r)
      [] table = "players" -> ValidPlayer(r)
      [] table = "matches" -> ValidMatch(r)
      [] table = "lineups" -> ValidLineup(r)

AllValid(rows, table) == \A i \in 1..Len(rows) : ValidFor(table, rows[i])

(***************************************************************************)
(* Players, match and lineups, lines 180-225 and 600-672                   *)
(***************************************************************************)
TeamInfo(home, away) ==
    <<[team_id |-> HomeTeamId, players |-> home], [team_id |-> AwayTeamId, players |-> away]>>

RECURSIVE Flatten(_)
Flatten(qs) == IF qs = <<>> THEN <<>> ELSE Head(qs) \o Flatten(Tail(qs))

\* lines 188-199 taking every team_id from the first team
PlayerRowsFirstTeamId(ti) ==
    Flatten([t \in 1..Len(ti) |->
        [i \in 1..Len(ti[t].players) |->
            [player_id |-> ti[t].players[i].playerId, team_id |-> ti[1].team_id,
             age |-> ti[t].players[i].age]]])

\* lines 188-199: one dict per player of each team
PlayerRows(ti) ==
    Flatten([t \in 1..Len(ti) |->
        [i \in 1..Len(ti[t].players) |->
            [player_id |-> ti[t].players[i].playerId, team_id |-> ti[t].team_id,
             age |-> ti[t].players[i].age]]])

\* player['age'] of a roster entry without the key
PlayersKeyError(ti) ==
    \E t \in 1..Len(ti) : \E i \in 1..Len(ti[t].players) : ti[t].players[i].age = MissingKey

\* line 621: map(int, score.split(' : ')) unpacked into two names
ScoreOk(score) == Len(score) = 2 /\ IsInt(score[1]) /\ IsInt(score[2])

\* lines 623-636; an absent region, competition or season is the empty
\* token sequence
MatchInfo(match_id, score, inf) ==
    <<[match_id |-> match_id, home_score |-> IntOf(score[1]), away_score |-> IntOf(score[2]),
       region |-> inf.region, competition |-> inf.competition, season |-> inf.season]>>

\* lines 640-664
LineupRows(mi, ti) ==
    Flatten([t \in 1..Len(ti) |->
        [i \in 1..Len(ti[t].players) |->
            [match_id |-> mi[1].match_id, team_id |-> ti[t].team_id,
             player_id |-> ti[t].players[i].playerId,
             player_position |-> ti[t].players[i].position,
             subbed_in_period |-> extract_period(ti[t].players[i].subbedInPeriod),
             subbed_out_period |-> extract_period(ti[t].players[i].subbedOutPeriod)]]])

(***************************************************************************)
(* scrape_whoscored_data and the loop of lines 713-717                     *)
(***************************************************************************)
\* the except clause of line 677
Caught == {"KeyError", "IndexError", "ValueError", "JSONDecodeError", "ValidationError"}

\* An exception raised inside the try block at position pc: caught and
\* printed, or passed on to the loop, which has no handler
Raise(err) ==
    IF err \in Caught
    THEN /\ scr' = [scr EXCEPT !.pc = "end", !.outcome = "Error", !.error = err]
         /\ batch' = batch
    ELSE /\ scr' = [scr EXCEPT !.pc = "raised", !.outcome = "Raised", !.error = err]
         /\ batch' = [batch EXCEPT !.pc = "aborted", !.error = err]

Upsert(table, records) ==
    sink' = [table |-> table, records |-> records]

\* lines 713-714: the next URL; the page it will load is drawn with it
LoopNext ==
    /\ batch.pc = "loop"
    /\ scr.pc \in {"idle", "end"}
    /\ batch.attempted < batch.n_urls
    /\ \E u \in UrlPool, pg \in PageKinds :
         /\ whoscored_url' = u
         /\ scr' = [NoScrape EXCEPT !.pc = "begin", !.page = pg]
    /\ batch' = [batch EXCEPT !.attempted = @ + 1]
    /\ info' = NoInfo
    /\ match_events' = <<>> /\ df' = <<>> /\ team_info' = <<>>
    /\ match_info' = <<>> /\ lineup_df' = <<>>
    /\ sink' = NoUpsert
    /\ UNCHANGED <<upc, walkVars, navVars, run>>

\* lines 512-526 and 679-680: match_id from the URL, outside the try block;
\* the URL's region, competition and season; the script block
ScrapeBegin ==
    /\ scr.pc = "begin"
    /\ LET seg == whoscored_url[Len(whoscored_url) - 2]
       IN  IF ~(Len(seg) = 1 /\ IsInt(seg[1]))
           THEN /\ scr' = [scr EXCEPT !.pc = "raised", !.outcome = "Raised",
                                      !.error = "ValueError"]
                /\ batch' = [batch EXCEPT !.pc = "aborted", !.error = "ValueError"]
                /\ info' = info
           ELSE /\ info' = extract_info_from_url(whoscored_url)
                /\ batch' = batch
                /\ scr' = IF scr.page = "none"
                          THEN [scr EXCEPT !.match_id = IntOf(seg[1]), !.pc = "end",
                                           !.outcome = "NoData"]
                          ELSE [scr EXCEPT !.match_id = IntOf(seg[1]), !.pc = "parse"]
    /\ UNCHANGED <<whoscored_url, upc, walkVars, navVars, run, matchVars, sink>>

\* lines 527-596
ScrapeEvents ==
    /\ scr.pc = "parse"
    /\ IF scr.page = "garbled"
       THEN /\ Raise("JSONDecodeError")
            /\ UNCHANGED <<match_events, df>>
       ELSE \E events \in EventLists :
              LET r == NormalizeEvents(events, scr.match_id)
              IN  /\ match_events' = events
                  /\ df' = r.df
                  /\ IF r.status = "ok"
                     THEN scr' = [scr EXCEPT !.pc = "insert_events"] /\ batch' = batch
                     ELSE Raise(r.status)
    /\ UNCHANGED <<urlVars, walkVars, navVars, run, team_info, match_info, lineup_df, sink>>

\* line 598 and lines 166-178
InsertEvents ==
    /\ scr.pc = "insert_events"
    /\ IF AllValid(df, "events")
       THEN /\ Upsert("events", df)
            /\ scr' = [scr EXCEPT !.pc = "team_info", !.written = Append(@, "events")]
            /\ batch' = batch
       ELSE Raise("ValidationError") /\ sink' = sink
    /\ UNCHANGED <<urlVars, walkVars, navVars, run, matchVars>>

\* line 600: team_info = []; the events and their frame are not read again
TeamInfoBegin ==
    /\ scr.pc = "team_info"
    /\ scr' = [scr EXCEPT !.pc = "players"]
    /\ team_info' = <<>>
    /\ match_events' = <<>>
    /\ df' = <<>>
    /\ UNCHANGED <<urlVars, walkVars, navVars, run, batch, match_info, lineup_df, sink>>

\* lines 601-617 and 180-200
InsertPlayers ==
    /\ scr.pc = "players"
    /\ \E home \in Rosters(HomeTeamId), away \in Rosters(AwayTeamId) :
         LET ti == TeamInfo(home, away)
         IN  /\ team_info' = ti
             /\ IF PlayersKeyError(ti)
                THEN Raise("KeyError") /\ sink' = sink
                ELSE /\ Upsert("players", PlayerRows(ti))
                     /\ scr' = [scr EXCEPT !.pc = "matches",
                                           !.written = Append(@, "players")]
                     /\ batch' = batch
    /\ match_events' = <<>>
    /\ df' = <<>>
    /\ UNCHANGED <<urlVars, walkVars, navVars, run, match_info, lineup_df>>

\* lines 619-636 without the call of line 638
InsertMatchesNoUpsert ==
    /\ scr.pc = "matches"
    /\ \E score \in Scores :
         IF ScoreOk(score)
         THEN /\ match_info' = MatchInfo(scr.match_id, score, info)
              /\ scr' = [scr EXCEPT !.pc = "lineups"]
              /\ batch' = batch
         ELSE Raise("ValueError") /\ match_info' = match_info
    /\ UNCHANGED <<urlVars, walkVars, navVars, run, match_events, df, team_info, lineup_df,
                   sink>>

\* lines 619-638 and 202-225
InsertMatches ==
    /\ scr.pc = "matches"
    /\ \E score \in Scores :
         IF ScoreOk(score)
         THEN /\ match_info' = MatchInfo(scr.match_id, score, info)
              /\ Upsert("matches", MatchInfo(scr.match_id, score, info))
              /\ scr' = [scr EXCEPT !.pc = "lineups", !.written = Append(@, "matches")]
              /\ batch' = batch
         ELSE Raise("ValueError") /\ sink' = sink /\ match_info' = match_info
    /\ UNCHANGED <<urlVars, walkVars, navVars, run, match_events, df, team_info, lineup_df>>

\* lines 640-676 and 227-239; a frame built from no rows has no
\* 'first_eleven' column
InsertLineups ==
    /\ scr.pc = "lineups"
    /\ LET rows == LineupRows(match_info, team_info)
       IN  IF rows = <<>>
           THEN Raise("KeyError") /\ sink' = sink /\ lineup_df' = lineup_df
           ELSE /\ lineup_df' = rows
                /\ IF AllValid(rows, "lineups")
                   THEN /\ Upsert("lineups", rows)
                        /\ scr' = [scr EXCEPT !.pc = "end", !.outcome = "Success",
                                              !.written = Append(@, "lineups")]
                        /\ batch' = batch
                   ELSE Raise("ValidationError") /\ sink' = sink
    /\ UNCHANGED <<urlVars, walkVars, navVars, run, match_events, df, team_info, match_info>>

\* lines 720-724: the list is exhausted
LoopEnd ==
    /\ batch.pc = "loop"
    /\ scr.pc \in {"idle", "end"}
    /\ batch.attempted = batch.n_urls
    /\ batch' = [batch EXCEPT !.pc = "done"]
    /\ UNCHANGED <<urlVars, walkVars, navVars, run, scr, matchVars, sink>>

\* The script at line 713, getMatchUrls having returned its list
Init ==
    /\ \E n \in 0..MaxUrls : batch = [NoBatch EXCEPT !.pc = "loop", !.n_urls = n]
    /\ run = "scraping"
    /\ scr = NoScrape
    /\ match_events = <<>> /\ df = <<>> /\ team_info = <<>>
    /\ match_info = <<>> /\ lineup_df = <<>>
    /\ sink = NoUpsert
    /\ nav = [NoNav EXCEPT !.pc = "returned"]
    /\ WalkIdle
    /\ whoscored_url = <<>>
    /\ info = NoInfo
    /\ upc = "idle"

Next ==
    \/ LoopNext
    \/ ScrapeBegin
    \/ ScrapeEvents
    \/ InsertEvents
    \/ TeamInfoBegin
    \/ InsertPlayers
    \/ InsertMatches
    \/ InsertLineups
    \/ LoopEnd

Spec == Init /\ [][Next]_vars

(***************************************************************************)
(* Properties of the batch                                                 *)
(***************************************************************************)
\* C1: no failure of one URL's match ends the batch: the loop is never left
\* by an exception, and it ends only with every URL attempted.
C1_NoFailureAbortsBatch ==
    /\ batch.pc # "aborted"
    /\ batch.pc = "done" => batch.attempted = batch.n_urls

\* the projection C3 describes
DisplayName(v) == IF v.kind = "dict" THEN S(v.name) ELSE v

RawEvent(id) == match_events[CHOOSE i \in 1..Len(match_events) : match_events[i].id = id]

RawPlayer(id) ==
    LET ps == team_info[1].players \o team_info[2].players
    IN  ps[CHOOSE i \in 1..Len(ps) : ps[i].playerId = id]

\* C3: normalising period, type, outcome_type of the events and the two
\* subbed periods of the lineup rows never raises on a descriptor, a plain
\* string or an absent value, and each normalized value is the displayName
\* of a descriptor and the raw value itself otherwise.
C3_DisplayNameProjection ==
    /\ scr.error # "TypeError"
    /\ \A i \in 1..Len(df) :
         /\ df[i].period = DisplayName(RawEvent(df[i].event_id).period)
         /\ df[i].type = DisplayName(RawEvent(df[i].event_id).type)
         /\ df[i].outcome_type = DisplayName(RawEvent(df[i].event_id).outcomeType)
    /\ \A i \in 1..Len(lineup_df) :
         /\ lineup_df[i].subbed_in_period =
                DisplayName(RawPlayer(lineup_df[i].player_id).subbedInPeriod)
         /\ lineup_df[i].subbed_out_period =
                DisplayName(RawPlayer(lineup_df[i].player_id).subbedOutPeriod)

\* C13: an event of a payload without the goal and card keys gets is_goal
\* false and card_type false; an event that carries isGoal or cardType keeps
\* that value in its record.
C13_FlagsKeptOrSynthesized ==
    \A i \in 1..Len(df) :
        /\ df[i].is_goal = AsBool(RawEvent(df[i].event_id).isGoal)
        /\ df[i].card_type = AsBool(RawEvent(df[i].event_id).cardType)

\* C4: every record of every upsert, of each of the four tables, satisfies
\* the schema of its kind.
C4_ValidatedBeforeUpsert ==
    /\ sink.table = "events"  => AllValid(sink.records, "events")
    /\ sink.table = "players" => AllValid(sink.records, "players")
    /\ sink.table = "matches" => AllValid(sink.records, "matches")
    /\ sink.table = "lineups" => AllValid(sink.records, "lineups")

\* C7: every record upserted into events has a player_id and a type other
\* than "OffsideGiven".
C7_EventsHavePlayerNoOffside ==
    sink.table = "events" =>
        \A i \in 1..Len(sink.records) :
            /\ sink.records[i].player_id > 0
            /\ sink.records[i].type.name # "OffsideGiven"

C7_Witness ==
    /\ sink.table = "events"
    /\ Len(sink.records) = 1
    /\ Len(match_events) = 2
    /\ \E i \in 1..Len(match_events) :
         match_events[i].playerId > 0 /\ match_events[i].type = D("OffsideGiven")

\* C8: the players batch has one record per roster entry of the home and the
\* away team, in roster order, each with the team_id of its team block; the
\* matches batch is one record, of this match; and a match processed to the
\* end wrote matches exactly once.
C8_OneRecordPerRosterEntry ==
    /\ sink.table = "players" =>
         LET home == team_info[1].players
             away == team_info[2].players
         IN  /\ Len(sink.records) = Len(home) + Len(away)
             /\ \A i \in 1..Len(home) :
                  /\ sink.records[i].player_id = home[i].playerId
                  /\ sink.records[i].team_id = team_info[1].team_id
             /\ \A i \in 1..Len(away) :
                  /\ sink.records[Len(home) + i].player_id = away[i].playerId
                  /\ sink.records[Len(home) + i].team_id = team_info[2].team_id
             /\ \A i, k \in 1..Len(sink.records) :
                  sink.records[i] = sink.records[k] => i = k
    /\ sink.table = "matches" =>
         Len(sink.records) = 1 /\ sink.records[1].match_id = scr.match_id
    /\ scr.outcome = "Success" =>
         Cardinality({i \in 1..Len(scr.written) : scr.written[i] = "matches"}) = 1

C8_Witness ==
    /\ sink.table = "players"
    /\ team_info[1].players # <<>>
    /\ team_info[2].players # <<>>

\* C9: a URL whose page has no matchCentreData block ends as a no-payload
\* outcome: nothing is upserted, nothing is raised, the loop goes on.
C9_NoPayloadIsNotAnError ==
    (scr.page = "none" /\ scr.pc \notin {"idle", "begin"}) =>
        /\ scr.outcome = "NoData"
        /\ scr.written = <<>>
        /\ sink = NoUpsert
        /\ batch.pc # "aborted"

UpsertOrder == <<"events", "players", "matches", "lineups">>

\* C14: for the URL being processed the tables upserted so far are a prefix
\* of (events, players, matches, lineups), the last of them being the upsert
\* the sink received last; all four are written exactly when 'Success' is
\* reported; and a failure leaves what was upserted before it as it was.
C14_UpsertsArePrefix ==
    /\ Len(scr.written) <= 4
    /\ scr.written = SubSeq(UpsertOrder, 1, Len(scr.written))
    /\ IF scr.written = <<>> THEN sink = NoUpsert
       ELSE sink.table = scr.written[Len(scr.written)]
    /\ scr.outcome = "Success" <=> scr.written = UpsertOrder
    /\ scr.outcome \in {"Error", "Raised", "NoData"} => Len(scr.written) < 4

\* the score string does not parse: events and players are in the sink, no
\* MatchRecord, no lineups
C14_Witness ==
    /\ scr.outcome = "Error"
    /\ scr.error = "ValueError"
    /\ scr.written = <<"events", "players">>
    /\ sink.table = "players"
    /\ sink.records # <<>>
    /\ match_info = <<>>

====
